---- MODULE Spec2Model ----
(***************************************************************************)
(* State-machine model of src/src/regex.rs (halo2-regex): the masked       *)
(* three-column lookup registered by RegexCheckConfig::configure, the      *)
(* witness assignment loop of RegexCheckConfig::assign_values, and the     *)
(* prover's lookup check over the assigned region.                         *)
(*                                                                         *)
(* A transition-table row is the triple <<prev_state, next_state,          *)
(* character>>, in the order of the lookup's three expressions.            *)
(***************************************************************************)
EXTENDS Integers, Sequences, FiniteSets, TLC

(* ----------------------------- bounds --------------------------------- *)

\* const STRING_LEN: usize = 22 in the source; scaled down to keep the state
\* space small.
STRING_LEN == 3

\* Stand-in for the modulus of the prime field F (larger than every value used).
FieldModulus == 101

\* Inputs may be one element longer than the loop bound.
MaxLen == STRING_LEN + 1

\* Largest number of usable rows a region may have.
MaxRows == STRING_LEN + 1

StateVals == {0, 1}
CharVals == {0, 1}

\* Proof instances; instance 2 takes part only in the two-instance specification.
Inst == {1, 2}

\* Row indices of a region's columns (one row beyond the largest usable row).
RowIdx == 0..MaxRows

\* Contents of the lookup file handed to load.
TableSources ==
    { {<<1, 1, 1>>},
      {<<1, 1, 0>>, <<1, 1, 1>>},
      {<<0, 1, 0>>, <<1, 0, 1>>} }

SeqsUpTo(S, n) == UNION {[1..l -> S] : l \in 0..n}

(* ----------------------------- field ---------------------------------- *)

\* F::from(x as u64)
FromU64(x) == x % FieldModulus

FAdd(a, b) == (a + b) % FieldModulus
FSub(a, b) == (a - b + FieldModulus) % FieldModulus
FMul(a, b) == (a * b) % FieldModulus

(* ----------------------------- region --------------------------------- *)

\* An advice cell nothing was assigned to.
Unassigned == -1

\* The prover reads a cell nothing was assigned to as zero.
CellValue(c) == IF c = Unassigned THEN 0 ELSE c

EmptyColumn == [r \in RowIdx |-> Unassigned]
NoSelector == [r \in RowIdx |-> FALSE]

\* The value assign_values returns on success.
NoResult == [characters |-> <<>>, states |-> <<>>, some |-> FALSE]

VARIABLES
    table,                \* rows of the loaded transition table
    loaded,               \* load has run
    debug,                \* debug assertions are compiled in
    rows,                 \* usable rows of every region
    characters,           \* [Inst -> input characters]
    states,               \* [Inst -> input states]
    pc,                   \* [Inst -> position in assign_values]
    i,                    \* [Inst -> loop variable]
    q_lookup_state_selector, \* [Inst -> [RowIdx -> BOOLEAN]]
    adv_characters,       \* [Inst -> characters column of the region]
    adv_state,            \* [Inst -> state column of the region]
    assigned_characters,  \* [Inst -> cells pushed so far, <<row, value>>]
    assigned_states,      \* [Inst -> cells pushed so far, <<row, value>>]
    result,               \* [Inst -> "none" | "Ok" | "Err" | "panic"]
    returned,             \* [Inst -> the AssignedRegexResult, or NoResult]
    outcome               \* [Inst -> "none" | "satisfied" | "unsatisfied"]

vars == <<table, loaded, debug, rows, characters, states, pc, i,
          q_lookup_state_selector, adv_characters, adv_state,
          assigned_characters, assigned_states, result, returned, outcome>>

config == <<table, loaded, debug, rows, characters, states>>
region == <<q_lookup_state_selector, adv_characters, adv_state>>
locals == <<assigned_characters, assigned_states>>

(* ----------------------------- table ---------------------------------- *)

\* TransitionTableConfig::load: the file's rows plus the all-zero row.
LoadTable(src) == src \cup {<<0, 0, 0>>}

(* ----------------------------- lookup --------------------------------- *)

\* The lookup without the selector mask: the row's values on every row.
LookupInput_unmasked(sel, st, ch, row) ==
    << CellValue(st[row]), CellValue(st[row + 1]), CellValue(ch[row]) >>

\* The lookup with next_state queried at Rotation::cur.
LookupInput_nextAtCur(sel, st, ch, row) ==
    LET q == IF sel[row] THEN 1 ELSE 0
    IN  << FMul(q, CellValue(st[row])),
           FMul(q, CellValue(st[row])),
           FMul(q, CellValue(ch[row])) >>

\* The three input expressions of the lookup at one row:
\*   q * value + (1 - q) * 0
LookupInput(sel, st, ch, row) ==
    LET q == IF sel[row] THEN 1 ELSE 0
        prev_state == CellValue(st[row])
        next_state == CellValue(st[row + 1])
        character == CellValue(ch[row])
        one_minus_q == FSub(1, q)
        zero == 0
    IN  << FAdd(FMul(q, prev_state), FMul(one_minus_q, zero)),
           FAdd(FMul(q, next_state), FMul(one_minus_q, zero)),
           FAdd(FMul(q, character), FMul(one_minus_q, zero)) >>

\* The prover's check: on every usable row the input is a row of the table.
Satisfied(T, sel, st, ch, n) ==
    \A row \in 0..(n - 1) : LookupInput(sel, st, ch, row) \in T

(* ----------------------------- region writes -------------------------- *)

\* A row the region can hold.
Usable(row) == row < rows

(* ----------------------------- actions -------------------------------- *)

InitCommon ==
    /\ table = {}
    /\ loaded = FALSE
    /\ i = [p \in Inst |-> 0]
    /\ q_lookup_state_selector = [p \in Inst |-> NoSelector]
    /\ adv_characters = [p \in Inst |-> EmptyColumn]
    /\ adv_state = [p \in Inst |-> EmptyColumn]
    /\ assigned_characters = [p \in Inst |-> <<>>]
    /\ assigned_states = [p \in Inst |-> <<>>]
    /\ result = [p \in Inst |-> "none"]
    /\ returned = [p \in Inst |-> NoResult]
    /\ outcome = [p \in Inst |-> "none"]

\* One proof instance, any input lengths, any row budget.
Init ==
    /\ InitCommon
    /\ debug \in BOOLEAN
    /\ rows \in 0..MaxRows
    /\ \E cs \in SeqsUpTo(CharVals, MaxLen), ss \in SeqsUpTo(StateVals, MaxLen) :
        /\ characters = [p \in Inst |-> IF p = 1 THEN cs ELSE <<>>]
        /\ states = [p \in Inst |-> IF p = 1 THEN ss ELSE <<>>]
    /\ pc = [p \in Inst |-> IF p = 1 THEN "call" ELSE "off"]

\* config.load(&mut layouter, lookup_filepath)
load ==
    /\ ~loaded
    /\ \E src \in TableSources : table' = LoadTable(src)
    /\ loaded' = TRUE
    /\ UNCHANGED <<debug, rows, characters, states, pc, i, region, locals,
                   result, returned, outcome>>

\* assign_values, entry: the two vectors and the debug assertion.
Call(p) ==
    /\ loaded
    /\ pc[p] = "call"
    /\ assigned_characters' = [assigned_characters EXCEPT ![p] = <<>>]
    /\ assigned_states' = [assigned_states EXCEPT ![p] = <<>>]
    /\ IF debug /\ Len(characters[p]) # Len(states[p])
       THEN /\ result' = [result EXCEPT ![p] = "panic"]
            /\ pc' = [pc EXCEPT ![p] = "done"]
            /\ UNCHANGED i
       ELSE /\ i' = [i EXCEPT ![p] = 0]
            /\ pc' = [pc EXCEPT ![p] = "row"]
            /\ UNCHANGED result
    /\ UNCHANGED <<config, region, returned, outcome>>

\* The loop head enabling the selector on every row, the last included.
RowBegin_enableAll(p) ==
    /\ pc[p] = "row"
    /\ i[p] < STRING_LEN
    /\ IF i[p] >= Len(characters[p]) \/ i[p] >= Len(states[p])
       THEN /\ result' = [result EXCEPT ![p] = "panic"]
            /\ pc' = [pc EXCEPT ![p] = "done"]
            /\ UNCHANGED q_lookup_state_selector
       ELSE IF Usable(i[p])
            THEN /\ q_lookup_state_selector' =
                        [q_lookup_state_selector EXCEPT ![p][i[p]] = TRUE]
                 /\ pc' = [pc EXCEPT ![p] = "char"]
                 /\ UNCHANGED result
            ELSE /\ result' = [result EXCEPT ![p] = "Err"]
                 /\ pc' = [pc EXCEPT ![p] = "done"]
                 /\ UNCHANGED q_lookup_state_selector
    /\ UNCHANGED <<config, i, adv_characters, adv_state, locals, returned, outcome>>

\* Loop head of row i: the indexing of both inputs, then the selector.
RowBegin(p) ==
    /\ pc[p] = "row"
    /\ i[p] < STRING_LEN
    /\ IF i[p] >= Len(characters[p]) \/ i[p] >= Len(states[p])
       THEN \* index out of bounds
            /\ result' = [result EXCEPT ![p] = "panic"]
            /\ pc' = [pc EXCEPT ![p] = "done"]
            /\ UNCHANGED q_lookup_state_selector
       ELSE IF i[p] < STRING_LEN - 1
       THEN IF Usable(i[p])
            THEN /\ q_lookup_state_selector' =
                        [q_lookup_state_selector EXCEPT ![p][i[p]] = TRUE]
                 /\ pc' = [pc EXCEPT ![p] = "char"]
                 /\ UNCHANGED result
            ELSE /\ result' = [result EXCEPT ![p] = "Err"]
                 /\ pc' = [pc EXCEPT ![p] = "done"]
                 /\ UNCHANGED q_lookup_state_selector
       ELSE /\ pc' = [pc EXCEPT ![p] = "char"]
            /\ UNCHANGED <<result, q_lookup_state_selector>>
    /\ UNCHANGED <<config, i, adv_characters, adv_state, locals, returned, outcome>>

\* The characters cell written although the row is not available.
AssignCharacter_writeThenFail(p) ==
    /\ pc[p] = "char"
    /\ LET v == FromU64(characters[p][i[p] + 1]) IN
       IF Usable(i[p])
       THEN /\ adv_characters' = [adv_characters EXCEPT ![p][i[p]] = v]
            /\ assigned_characters' =
                   [assigned_characters EXCEPT ![p] = Append(@, <<i[p], v>>)]
            /\ pc' = [pc EXCEPT ![p] = "state"]
            /\ UNCHANGED result
       ELSE /\ adv_characters' = [adv_characters EXCEPT ![p][i[p]] = v]
            /\ result' = [result EXCEPT ![p] = "Err"]
            /\ pc' = [pc EXCEPT ![p] = "done"]
            /\ UNCHANGED assigned_characters
    /\ UNCHANGED <<config, i, q_lookup_state_selector, adv_state, assigned_states,
                   returned, outcome>>

\* region.assign_advice(.., self.characters, i, ..)?; assigned_characters.push
AssignCharacter(p) ==
    /\ pc[p] = "char"
    /\ IF Usable(i[p])
       THEN LET v == FromU64(characters[p][i[p] + 1]) IN
            /\ adv_characters' = [adv_characters EXCEPT ![p][i[p]] = v]
            /\ assigned_characters' =
                   [assigned_characters EXCEPT ![p] = Append(@, <<i[p], v>>)]
            /\ pc' = [pc EXCEPT ![p] = "state"]
            /\ UNCHANGED result
       ELSE /\ result' = [result EXCEPT ![p] = "Err"]
            /\ pc' = [pc EXCEPT ![p] = "done"]
            /\ UNCHANGED <<adv_characters, assigned_characters>>
    /\ UNCHANGED <<config, i, q_lookup_state_selector, adv_state, assigned_states,
                   returned, outcome>>

\* The state cell written at row i of every instance's region.
AssignState_sharedColumn(p) ==
    /\ pc[p] = "state"
    /\ IF Usable(i[p])
       THEN LET v == FromU64(states[p][i[p] + 1]) IN
            /\ adv_state' = [q \in Inst |-> [adv_state[q] EXCEPT ![i[p]] = v]]
            /\ assigned_states' =
                   [assigned_states EXCEPT ![p] = Append(@, <<i[p], v>>)]
            /\ i' = [i EXCEPT ![p] = @ + 1]
            /\ pc' = [pc EXCEPT ![p] = "row"]
            /\ UNCHANGED result
       ELSE /\ result' = [result EXCEPT ![p] = "Err"]
            /\ pc' = [pc EXCEPT ![p] = "done"]
            /\ UNCHANGED <<adv_state, assigned_states, i>>
    /\ UNCHANGED <<config, q_lookup_state_selector, adv_characters,
                   assigned_characters, returned, outcome>>

\* region.assign_advice(.., self.state, i, ..)?; assigned_states.push
AssignState(p) ==
    /\ pc[p] = "state"
    /\ IF Usable(i[p])
       THEN LET v == FromU64(states[p][i[p] + 1]) IN
            /\ adv_state' = [adv_state EXCEPT ![p][i[p]] = v]
            /\ assigned_states' =
                   [assigned_states EXCEPT ![p] = Append(@, <<i[p], v>>)]
            /\ i' = [i EXCEPT ![p] = @ + 1]
            /\ pc' = [pc EXCEPT ![p] = "row"]
            /\ UNCHANGED result
       ELSE /\ result' = [result EXCEPT ![p] = "Err"]
            /\ pc' = [pc EXCEPT ![p] = "done"]
            /\ UNCHANGED <<adv_state, assigned_states, i>>
    /\ UNCHANGED <<config, q_lookup_state_selector, adv_characters,
                   assigned_characters, returned, outcome>>

\* Ok(AssignedRegexResult { characters, states })
Return(p) ==
    /\ pc[p] = "row"
    /\ i[p] >= STRING_LEN
    /\ result' = [result EXCEPT ![p] = "Ok"]
    /\ returned' = [returned EXCEPT ![p] =
                       [characters |-> assigned_characters[p],
                        states |-> assigned_states[p],
                        some |-> TRUE]]
    /\ pc' = [pc EXCEPT ![p] = "done"]
    /\ UNCHANGED <<config, i, region, locals, outcome>>

\* MockProver::run(..).unwrap() followed by verify / assert_satisfied
Verify(p) ==
    /\ pc[p] = "done"
    /\ result[p] = "Ok"
    /\ outcome' = [outcome EXCEPT ![p] =
                      IF Satisfied(table, q_lookup_state_selector[p],
                                   adv_state[p], adv_characters[p], rows)
                      THEN "satisfied" ELSE "unsatisfied"]
    /\ pc' = [pc EXCEPT ![p] = "verified"]
    /\ UNCHANGED <<config, i, region, locals, result, returned>>

Next ==
    \/ load
    \/ \E p \in Inst :
        \/ Call(p)
        \/ RowBegin(p)
        \/ AssignCharacter(p)
        \/ AssignState(p)
        \/ Return(p)
        \/ Verify(p)

Spec == Init /\ [][Next]_vars

\* Positions at which two sequences of the same length differ.
DiffPositions(a, b) == {k \in 1..Len(a) : a[k] # b[k]}

\* Two proof instances over one loaded table, their steps interleaved; each
\* has a full-length trace, and the second differs from the first in at most
\* one character or state.  The lengths agree, so the debug assertion cannot
\* fire and the build mode is immaterial; each region has a spare row.
InitPar ==
    /\ InitCommon
    /\ debug = FALSE
    /\ rows = MaxRows
    /\ \E c1 \in [1..STRING_LEN -> CharVals], s1 \in [1..STRING_LEN -> StateVals],
          c2 \in [1..STRING_LEN -> CharVals], s2 \in [1..STRING_LEN -> StateVals] :
        /\ Cardinality(DiffPositions(c1, c2)) + Cardinality(DiffPositions(s1, s2)) <= 1
        /\ characters = [p \in Inst |-> IF p = 1 THEN c1 ELSE c2]
        /\ states = [p \in Inst |-> IF p = 1 THEN s1 ELSE s2]
    /\ pc = [p \in Inst |-> "call"]

SpecPar == InitPar /\ [][Next]_vars

(* ----------------------------- properties ----------------------------- *)

\* The triple the trace of instance p puts on row r (rows count from 0).
Triple(p, r) == <<states[p][r + 1], states[p][r + 2], characters[p][r + 1]>>

\* The rows of p's region whose selector is enabled.
ActivatedRows(p) == {r \in RowIdx : q_lookup_state_selector[p][r]}

\* The trace of p has the length the circuit is defined for.
FullLength(p) ==
    /\ Len(characters[p]) = STRING_LEN
    /\ Len(states[p]) = STRING_LEN

\* Every activated row's triple is a row of the table.
TraceInTable(p) == \A r \in ActivatedRows(p) : Triple(p, r) \in table

\* C1: a full-length trace in a region with enough rows is assigned with Ok,
\* and a verified trace all of whose activated rows carry a triple of the
\* table is reported satisfied.
C1_ValidTraceSatisfied ==
    \A p \in Inst :
        /\ (pc[p] \in {"done", "verified"} /\ FullLength(p) /\ rows >= STRING_LEN)
              => result[p] = "Ok"
        /\ (pc[p] = "verified" /\ TraceInTable(p)) => outcome[p] = "satisfied"

\* C1 witness: a verified, satisfied trace whose activated rows all carry a
\* triple other than the all-zero one.
C1_Witness ==
    /\ pc[1] = "verified"
    /\ outcome[1] = "satisfied"
    /\ FullLength(1)
    /\ ActivatedRows(1) # {}
    /\ \A r \in ActivatedRows(1) : Triple(1, r) # <<0, 0, 0>>

\* C2: a verified trace with at least one activated row whose triple is not a
\* row of the table is reported unsatisfied, whatever the other rows hold.
C2_InvalidTraceUnsatisfied ==
    \A p \in Inst :
        (pc[p] = "verified" /\ ~TraceInTable(p)) => outcome[p] = "unsatisfied"

\* C2 witness: exactly one activated row is off the table, the others on it.
C2_Witness ==
    /\ pc[1] = "verified"
    /\ outcome[1] = "unsatisfied"
    /\ Cardinality({r \in ActivatedRows(1) : Triple(1, r) \notin table}) = 1
    /\ Cardinality({r \in ActivatedRows(1) : Triple(1, r) \in table}) >= 1

\* C4: after assign_values on a trace of the circuit's length N the selector
\* is enabled on exactly rows 0..N-2, it is never enabled on row N-1, and a
\* trace whose triples on rows 0..N-2 are in the table is satisfied.
C4_LastRowNeverActivated ==
    \A p \in Inst :
        LET N == Len(characters[p]) IN
        /\ FullLength(p) => ~q_lookup_state_selector[p][N - 1]
        /\ (FullLength(p) /\ result[p] = "Ok") => ActivatedRows(p) = 0..(N - 2)
        /\ (FullLength(p) /\ pc[p] = "verified"
               /\ \A r \in 0..(N - 2) : Triple(p, r) \in table)
              => outcome[p] = "satisfied"

\* C4 witness: a satisfied trace of length N from whose last row no
\* transition of the table leaves.
C4_Witness ==
    /\ pc[1] = "verified"
    /\ outcome[1] = "satisfied"
    /\ FullLength(1)
    /\ ActivatedRows(1) = 0..(STRING_LEN - 2)
    /\ \A t \in table : ~(t[1] = states[1][STRING_LEN] /\ t[3] = characters[1][STRING_LEN])

\* C5: on every usable row whose selector is cleared the lookup input is
\* (0,0,0) whatever the cells hold; so once assign_values has ended the row
\* is accepted by every table that has the row (0,0,0), and a table without
\* it (the lookup file's rows alone) rejects the row and with it the region.
C5_InactiveRowIsZero ==
    \A p \in Inst :
        LET sel == q_lookup_state_selector[p]
            inactive == {r \in 0..(rows - 1) : ~sel[r]}
        IN  /\ \A r \in inactive :
                  LookupInput(sel, adv_state[p], adv_characters[p], r) = <<0, 0, 0>>
            /\ (inactive # {} /\ pc[p] \in {"done", "verified"}) =>
                  \A src \in TableSources :
                      /\ <<0, 0, 0>> \in LoadTable(src)
                      /\ <<0, 0, 0>> \notin src =>
                            ~Satisfied(src, sel, adv_state[p], adv_characters[p], rows)

\* C5 witness: a verified, satisfied region whose last trace row holds a
\* non-zero state and a non-zero character, followed by an unassigned row.
C5_Witness ==
    /\ pc[1] = "verified"
    /\ outcome[1] = "satisfied"
    /\ rows > STRING_LEN
    /\ ~q_lookup_state_selector[1][STRING_LEN - 1]
    /\ adv_state[1][STRING_LEN - 1] = 1
    /\ adv_characters[1][STRING_LEN - 1] = 1
    /\ adv_state[1][STRING_LEN] = Unassigned

\* Nothing has been written to the region of p.
RegionUntouched(p) ==
    /\ q_lookup_state_selector[p] = NoSelector
    /\ adv_characters[p] = EmptyColumn
    /\ adv_state[p] = EmptyColumn

\* C3: once assign_values has been entered with inputs of different lengths
\* it has returned an error and written nothing, in either build mode.
C3_LengthMismatchRejected ==
    \A p \in Inst :
        (pc[p] \in {"done", "verified"} /\ Len(characters[p]) # Len(states[p]))
            => (result[p] = "Err" /\ RegionUntouched(p))

\* No selector and no cell of p's region at row r or below it has been written.
NoWriteFrom(p, r) ==
    \A k \in RowIdx : k >= r =>
        /\ ~q_lookup_state_selector[p][k]
        /\ adv_characters[p][k] = Unassigned
        /\ adv_state[p][k] = Unassigned

\* C7: a region too small for the rows of the loop makes assign_values end
\* with Err; it ends at the first row the region cannot hold, with nothing
\* written at that row or below it and no AssignedRegexResult returned.
C7_AbortOnFirstFailure ==
    \A p \in Inst :
        /\ result[p] = "Err" =>
              /\ pc[p] = "done"
              /\ i[p] = rows
              /\ NoWriteFrom(p, i[p])
              /\ returned[p] = NoResult
              /\ outcome[p] = "none"
        /\ (pc[p] = "done" /\ rows < STRING_LEN
               /\ Len(characters[p]) > rows /\ Len(states[p]) > rows
               /\ result[p] # "panic")
              => result[p] = "Err"

\* C7 witness: the failure comes after some rows have been written.
C7_Witness ==
    /\ result[1] = "Err"
    /\ i[1] >= 1
    /\ adv_state[1][i[1] - 1] # Unassigned
    /\ Len(assigned_states[1]) = i[1]

\* C9: for inputs of one length N, in a region with at least N rows,
\* assign_values writes characters[i] and states[i] at row i for every i in
\* [0, N), writes no other row and returns N cells of each column, in order.
C9_WritesInputLengthRows ==
    \A p \in Inst :
        LET N == Len(characters[p]) IN
        (pc[p] = "done" /\ Len(states[p]) = N /\ rows >= N) =>
            /\ result[p] = "Ok"
            /\ \A r \in 0..(N - 1) :
                  /\ adv_characters[p][r] = characters[p][r + 1]
                  /\ adv_state[p][r] = states[p][r + 1]
            /\ NoWriteFrom(p, N)
            /\ returned[p].characters = [k \in 1..N |-> <<k - 1, characters[p][k]>>]
            /\ returned[p].states = [k \in 1..N |-> <<k - 1, states[p][k]>>]

\* Instance 2's trace is instance 1's with the character or the state of
\* exactly one activated row (rows 0..STRING_LEN-2) changed.
OneActivatedRowChanged ==
    LET dc == DiffPositions(characters[1], characters[2])
        ds == DiffPositions(states[1], states[2])
    IN  /\ Cardinality(dc) + Cardinality(ds) = 1
        /\ \A k \in dc \cup ds : k <= STRING_LEN - 1

\* The activated rows whose triple the change touches: the changed row, and
\* for a changed state also the row before it, whose next_state it is.
TouchedRows ==
    LET dc == DiffPositions(characters[1], characters[2])
        ds == DiffPositions(states[1], states[2])
    IN  {r \in 0..(STRING_LEN - 2) : (r + 1) \in dc \cup ds \/ (r + 2) \in ds}

BothVerified == pc[1] = "verified" /\ pc[2] = "verified"

\* C6 as claimed: changing the character or the state of one activated row
\* of a trace that is in the table makes the circuit unsatisfiable.
C6_AnyChangeInvalidates ==
    (BothVerified /\ TraceInTable(1) /\ OneActivatedRowChanged)
        => outcome[2] = "unsatisfied"

\* C6 as amended: after such a change the circuit is unsatisfiable exactly
\* when a touched row's new triple is not a row of the table.
C6_ChangeInvalidatesIffOffTable ==
    (BothVerified /\ TraceInTable(1) /\ OneActivatedRowChanged)
        => (outcome[2] = "unsatisfied"
               <=> \E r \in TouchedRows : Triple(2, r) \notin table)

\* C6 witness: a changed row that is off the table, in a trace that was on it
\* with no all-zero row.
C6_Witness ==
    /\ BothVerified
    /\ TraceInTable(1)
    /\ OneActivatedRowChanged
    /\ \A r \in ActivatedRows(1) : Triple(1, r) # <<0, 0, 0>>
    /\ \E r \in TouchedRows : Triple(2, r) \notin table
    /\ outcome[1] = "satisfied"
    /\ outcome[2] = "unsatisfied"

\* The region and the result assign_values leaves for p's inputs by itself.
AloneFinal(p) ==
    /\ ActivatedRows(p) = 0..(STRING_LEN - 2)
    /\ \A r \in RowIdx :
          /\ adv_characters[p][r] =
                IF r < STRING_LEN THEN characters[p][r + 1] ELSE Unassigned
          /\ adv_state[p][r] =
                IF r < STRING_LEN THEN states[p][r + 1] ELSE Unassigned
    /\ result[p] = "Ok"
    /\ pc[p] = "verified" =>
          (outcome[p] = "satisfied"
              <=> \A r \in 0..(STRING_LEN - 2) : Triple(p, r) \in table)

\* A step of one instance leaves the other instance's region, vectors and
\* results as they were.
OthersUntouched ==
    \A p \in Inst :
        (pc'[p] = pc[p] /\ i'[p] = i[p]) =>
            /\ q_lookup_state_selector'[p] = q_lookup_state_selector[p]
            /\ adv_characters'[p] = adv_characters[p]
            /\ adv_state'[p] = adv_state[p]
            /\ assigned_characters'[p] = assigned_characters[p]
            /\ assigned_states'[p] = assigned_states[p]
            /\ result'[p] = result[p]
            /\ returned'[p] = returned[p]
            /\ outcome'[p] = outcome[p]

\* C8: once loaded the table never changes; a step of one instance writes
\* only that instance's region; and however the two instances' steps are
\* interleaved, each ends with the region and the outcome of a run by itself.
C8_TableReadOnlyInstancesIndependent ==
    /\ [][(loaded => table' = table) /\ OthersUntouched]_vars
    /\ [](\A p \in Inst : pc[p] \in {"done", "verified"} => AloneFinal(p))

\* C8 witness: both instances are in the middle of their loops, at different
\* rows, with different traces.
C8_Witness ==
    /\ pc[1] = "state" /\ i[1] = 0
    /\ pc[2] = "char" /\ i[2] = STRING_LEN - 1
    /\ states[1] # states[2]

\* C10: two traces that differ only in the last character have the same
\* outcome, while the last state is bound: a satisfied trace has the triple
\* of row N-2, whose next_state is the last state, in the table.
C10_LastCharacterFree ==
    /\ (BothVerified /\ states[1] = states[2]
           /\ DiffPositions(characters[1], characters[2]) = {STRING_LEN})
          => outcome[1] = outcome[2]
    /\ \A p \in Inst :
          (pc[p] = "verified" /\ outcome[p] = "satisfied")
              => Triple(p, STRING_LEN - 2) \in table

\* C10 witness: two satisfied traces with non-zero states that differ in the
\* last character only.
C10_Witness ==
    /\ BothVerified
    /\ states[1] = states[2]
    /\ DiffPositions(characters[1], characters[2]) = {STRING_LEN}
    /\ outcome[1] = "satisfied"
    /\ states[1][STRING_LEN] = 1

====
